---------------------------- MODULE Spec2Model ----------------------------
(***************************************************************************)
(* Model of the notebook WRC_HCF/vanGenuchen-Mualem.ipynb: the van         *)
(* Genuchten-Mualem water retention curve and hydraulic conductivity       *)
(* function, the matric-potential grid, the evaluation loop over the named *)
(* soils and the plotting cell with its aspect-ratio helper.               *)
(*                                                                         *)
(* Numbers.  The notebook computes with Python floats and numpy float64    *)
(* arrays.  The model computes with exact real arithmetic: a number is a   *)
(* rational in lowest terms whenever the operation that produced it has a  *)
(* rational result the model can find, and otherwise the unevaluated term   *)
(* of that operation over its operands (for instance 10 ** (3/10)).  A     *)
(* rational whose numerator or denominator exceeds MaxMagnitude is left    *)
(* unevaluated too.                                                        *)
(* Floating-point rounding, overflow and underflow are not modelled.       *)
(***************************************************************************)
EXTENDS Integers, Sequences, FiniteSets, TLC

(***************************************************************************)
(* Bounds of the model.                                                    *)
(***************************************************************************)
\* largest integer tried as the q-th root of a numerator or denominator
MaxRoot == 16
\* largest numerator or denominator of a number kept as a rational
MaxMagnitude == 30000
\* longest psi array handed to VGM_theta_K by the function harness
MaxLen == 2

(***************************************************************************)
(* Exact arithmetic.                                                       *)
(***************************************************************************)
Abs(i) == IF i < 0 THEN -i ELSE i

RECURSIVE GCD(_, _)
GCD(a, b) == IF b = 0 THEN a ELSE GCD(b, a % b)

\* the rational n/d (d # 0) in lowest terms with a positive denominator
Q(n, d) ==
    LET g == GCD(Abs(n), Abs(d))
        s == IF d < 0 THEN -1 ELSE 1
    IN  [k |-> "q", n |-> (s * n) \div g, d |-> (s * d) \div g, t |-> <<>>]

Num(i) == Q(i, 1)

\* the unevaluated term op(args)
Sym(t) == [k |-> "sym", n |-> 0, d |-> 1, t |-> t]

\* a raised Python exception
Err(name) == [k |-> "err", n |-> 0, d |-> 1, t |-> <<name>>]

IsQ(x) == x.k = "q"
IsErr(x) == x.k = "err"

\* an operation on two operands: the first raised exception wins, an
\* unevaluated operand leaves the operation unevaluated
Bin(F(_, _), op, a, b) ==
    IF IsErr(a) THEN a
    ELSE IF IsErr(b) THEN b
    ELSE IF IsQ(a) /\ IsQ(b) THEN F(a, b)
    ELSE Sym(<<op, a, b>>)

\* the rational n/d, left unevaluated as op(a, b) once its numerator or
\* denominator exceeds MaxMagnitude
Capped(op, a, b, n, d) ==
    LET q == Q(n, d)
    IN  IF Abs(q.n) > MaxMagnitude \/ q.d > MaxMagnitude THEN Sym(<<op, a, b>>) ELSE q

QAdd(a, b) == Capped("add", a, b, a.n * b.d + b.n * a.d, a.d * b.d)
QSub(a, b) == Capped("sub", a, b, a.n * b.d - b.n * a.d, a.d * b.d)
QMul(a, b) == Capped("mul", a, b, a.n * b.n, a.d * b.d)
\* Python float division: a zero divisor raises ZeroDivisionError
QDiv(a, b) ==
    IF b.n = 0 THEN Err("ZeroDivisionError") ELSE Capped("div", a, b, a.n * b.d, a.d * b.n)

Add(a, b) == Bin(QAdd, "add", a, b)
Sub(a, b) == Bin(QSub, "sub", a, b)
Mul(a, b) == Bin(QMul, "mul", a, b)
Div(a, b) == Bin(QDiv, "div", a, b)
Neg(a) == IF IsErr(a) THEN a ELSE IF IsQ(a) THEN Q(-a.n, a.d) ELSE Sym(<<"neg", a>>)

\* a * b for integers a, b >= 0, or -1 once it exceeds MaxMagnitude
CapMul(a, b) ==
    IF a = -1 \/ b = -1 THEN -1
    ELSE IF a = 0 \/ b = 0 THEN 0
    ELSE IF a > MaxMagnitude \div b THEN -1 ELSE a * b

\* b ** e for integers b >= 0, e >= 0, or -1 once it exceeds MaxMagnitude
RECURSIVE IPow(_, _)
IPow(b, e) ==
    IF e = 0 \/ b = 1 THEN 1
    ELSE IF b = 0 THEN 0
    ELSE LET h == IPow(b, e \div 2)
             hh == CapMul(h, h)
         IN  IF e % 2 = 0 THEN hh ELSE CapMul(hh, b)

\* the integer r >= 0 with r ** q = p, or -1 when there is none up to MaxRoot
IRoot(p, q) ==
    IF p <= 1 \/ q = 1 THEN p
    ELSE LET R == {r \in 2..MaxRoot : IPow(r, q) = p}
         IN  IF R = {} THEN -1 ELSE CHOOSE r \in R : TRUE

\* a ** b for rationals a, b (the ** of Python floats, in exact arithmetic)
QPow(a, b) ==
    IF b.n = 0 THEN Num(1)
    ELSE IF a.n = 0 THEN (IF b.n > 0 THEN Num(0) ELSE Err("ZeroDivisionError"))
    ELSE IF a.n < 0 /\ b.d # 1 THEN Sym(<<"pow", a, b>>)
    ELSE LET rn == IRoot(Abs(a.n), b.d)
             rd == IRoot(a.d, b.d)
             pn == IF rn = -1 THEN -1 ELSE IPow(rn, Abs(b.n))
             pd == IF rd = -1 THEN -1 ELSE IPow(rd, Abs(b.n))
             sg == IF a.n < 0 /\ Abs(b.n) % 2 = 1 THEN -1 ELSE 1
         IN  IF pn = -1 \/ pd = -1 THEN Sym(<<"pow", a, b>>)
             ELSE IF b.n > 0 THEN Q(sg * pn, pd) ELSE Q(sg * pd, pn)

Pow(a, b) == Bin(QPow, "pow", a, b)

\* order of two rationals
QLt(a, b) == a.n * b.d < b.n * a.d
QLe(a, b) == a.n * b.d <= b.n * a.d

\* np.log10 of a rational: the integer k when a = 10 ** k, else unevaluated
RECURSIVE ILog10(_)
ILog10(i) == IF i = 1 THEN 0
             ELSE IF i % 10 # 0 THEN -1
             ELSE LET r == ILog10(i \div 10) IN IF r = -1 THEN -1 ELSE r + 1

QLog10(a) ==
    IF a.n >= 1 /\ a.d = 1 /\ ILog10(a.n) # -1 THEN Num(ILog10(a.n))
    ELSE IF a.n = 1 /\ ILog10(a.d) # -1 THEN Num(-ILog10(a.d))
    ELSE Sym(<<"log10", a>>)

Log10(a) == IF IsErr(a) THEN a ELSE IF IsQ(a) THEN QLog10(a) ELSE Sym(<<"log10", a>>)

\* the smallest integer >= a, for a rational a
Ceil(a) == -((-a.n) \div a.d)

(***************************************************************************)
(* numpy arrays are sequences; an operation between a scalar and an array  *)
(* or between two arrays acts element by element.  Where a Python scalar   *)
(* operation raises, the numpy element operation warns and stores a        *)
(* non-finite value.                                                       *)
(***************************************************************************)
NpVal(v) == IF IsErr(v) THEN Sym(<<"nonfinite">>) ELSE v

\* scalar (op) array
SA(F(_, _), s, a) == [i \in 1..Len(a) |-> NpVal(F(s, a[i]))]
\* array (op) scalar
AS(F(_, _), a, s) == [i \in 1..Len(a) |-> NpVal(F(a[i], s))]
\* array (op) array of the same length
AA(F(_, _), a, b) == [i \in 1..Len(a) |-> NpVal(F(a[i], b[i]))]
\* a function of one array
A1(F(_), a) == [i \in 1..Len(a) |-> NpVal(F(a[i]))]

\* Arange with the stop value included
Arange_inclusive(start, stop, step) ==
    LET len == Ceil(QDiv(QSub(stop, start), step)) + 1
    IN  [i \in 1..(IF len < 0 THEN 0 ELSE len) |-> QAdd(start, QMul(Num(i - 1), step))]

\* np.arange(start, stop, step): ceil((stop - start) / step) values
\* start + i * step, the stop value excluded
Arange(start, stop, step) ==
    LET len == Ceil(QDiv(QSub(stop, start), step))
    IN  [i \in 1..(IF len < 0 THEN 0 ELSE len) |-> QAdd(start, QMul(Num(i - 1), step))]

(***************************************************************************)
(* def VGM_theta_K(psi, theta_r, theta_s, alpha, n, K_s, l), psi a numpy   *)
(* array and the six parameters Python numbers.  The result is the pair    *)
(* (theta, K), or the exception a scalar operation raised.                 *)
(***************************************************************************)
Raise(name) == [raised |-> name, theta |-> <<>>, K |-> <<>>]
Return(theta, K) == [raised |-> "", theta |-> theta, K |-> K]

\* VGM_m with the sign of 1/n flipped
VGM_m_plus(n) == Add(Num(1), Div(Num(1), n))

\* m = 1 - 1/n
VGM_m(n) == Sub(Num(1), Div(Num(1), n))

\* VGM_S_e with the exponent m instead of -m
VGM_S_e_positive_exponent(psi, alpha, n, m) ==
    AS(Pow, SA(Add, Num(1), AS(Pow, SA(Mul, Neg(alpha), psi), n)), m)

\* VGM_S_e computed from the first element of psi for every element
VGM_S_e_first_element(psi, alpha, n, m) ==
    AS(Pow, SA(Add, Num(1), AS(Pow, SA(Mul, Neg(alpha), [i \in 1..Len(psi) |-> psi[1]]), n)), Neg(m))

\* S_e without the "1 +"
VGM_S_e_without_one(psi, alpha, n, m) ==
    AS(Pow, AS(Pow, SA(Mul, Neg(alpha), psi), n), Neg(m))

\* S_e = (1 + (-alpha*psi)**n)**(-m)
VGM_S_e(psi, alpha, n, m) ==
    AS(Pow, SA(Add, Num(1), AS(Pow, SA(Mul, Neg(alpha), psi), n)), Neg(m))

\* VGM_theta with theta_s added instead of theta_r
VGM_theta_plus_theta_s(S_e, theta_r, theta_s) ==
    AS(Add, AS(Mul, S_e, Sub(theta_s, theta_r)), theta_s)

\* theta with the operands of the difference swapped
VGM_theta_swapped_range(S_e, theta_r, theta_s) ==
    AS(Add, AS(Mul, S_e, Sub(theta_r, theta_s)), theta_r)

\* theta =  S_e * (theta_s - theta_r) + theta_r
VGM_theta(S_e, theta_r, theta_s) ==
    AS(Add, AS(Mul, S_e, Sub(theta_s, theta_r)), theta_r)

\* VGM_K with S_e**m instead of S_e**(1/m)
VGM_K_inner_exponent_m(S_e, m, inv_m, K_s, l) ==
    AA(Mul, SA(Mul, K_s, AS(Pow, S_e, l)),
            AS(Pow, SA(Sub, Num(1), AS(Pow, SA(Sub, Num(1), AS(Pow, S_e, m)), m)),
               Num(2)))

\* K = K_s*S_e**l*(1-(1-S_e**(1/m))**m)**2, given 1/m
VGM_K(S_e, m, inv_m, K_s, l) ==
    AA(Mul, SA(Mul, K_s, AS(Pow, S_e, l)),
            AS(Pow, SA(Sub, Num(1), AS(Pow, SA(Sub, Num(1), AS(Pow, S_e, inv_m)), m)),
               Num(2)))

VGM_theta_K(psi, theta_r, theta_s, alpha, n, K_s, l) ==
    LET m == VGM_m(n)
        S_e == VGM_S_e(psi, alpha, n, m)
        inv_m == Div(Num(1), m)
    IN  IF IsErr(m) THEN Raise(m.t[1])
        ELSE IF IsErr(inv_m) THEN Raise(inv_m.t[1])
        ELSE Return(VGM_theta(S_e, theta_r, theta_s), VGM_K(S_e, m, inv_m, K_s, l))

(***************************************************************************)
(* The notebook's state: its global names, the figure's two axes, and the  *)
(* statement about to run.  pc is the line of that statement in the .ipynb *)
(* file (0 once the last cell has finished); the cells run in order.  The  *)
(* cells that only import modules or define the two functions change no    *)
(* modelled state and are not steps.                                       *)
(***************************************************************************)
VARIABLES
    pc,              \* line of the next statement; 0 = finished, -1 = function harness
    raised,          \* "" or the name of the uncaught exception that ended the run
    table,           \* the literal the parameter cell assigns (the run's input)
    VGM_parameters,  \* soil name -> [theta_r, theta_s, alpha, n, K_s, l]
    log10_h,         \* np.arange(0, 6, 0.1)
    psi,             \* -10**log10_h
    soil,            \* loop variable of the evaluation loop
    ns,              \* names written and read through vars()[...], name -> value
    row,             \* global read by fixed_aspect_ratio_row
    axs,             \* 0..1 -> axes state; <<>> before plt.subplots
    ticks_x, ticklabels_x, ticks_y, ticklabels_y, minor_ticks,
    call,            \* function harness: the call to make
    ret              \* function harness: what the call returned

dataVars == <<VGM_parameters, log10_h, psi>>
tickVars == <<ticks_x, ticklabels_x, ticks_y, ticklabels_y, minor_ticks>>
fnVars == <<call, ret>>
vars == <<pc, raised, table, dataVars, soil, ns, row, axs, tickVars, fnVars>>

\* for soil in ["sandy_loam", "loam", "silt_loam"]
Soils == <<"sandy_loam", "loam", "silt_loam">>

\* the literal VGM_parameters of the notebook (van Genuchten, 1980)
LiteralParameters == [s \in {Soils[i] : i \in 1..Len(Soils)} |->
    CASE s = "sandy_loam" -> <<Q(65, 1000), Q(41, 100), Q(75, 1000), Q(189, 100), Q(1061, 10), Q(5, 10)>>
      [] s = "loam"       -> <<Q(78, 1000), Q(43, 100), Q(36, 1000), Q(156, 100), Q(2496, 100), Q(5, 10)>>
      [] s = "silt_loam"  -> <<Q(67, 1000), Q(45, 100), Q(2, 100), Q(141, 100), Q(108, 10), Q(5, 10)>>]

\* other parameter lists a table may hold: two with n = 2, for which the
\* model evaluates one grid point in rationals (alpha * 10**k = 3/4), and one
\* with the invalid shape parameter n = 1
EditedParameters ==
    { <<Q(1, 10), Q(1, 2), Q(3, 4), Num(2), Num(10), Num(1)>>,
      <<Q(1, 20), Q(2, 5), Q(3, 40), Num(2), Num(20), Num(2)>>,
      <<Q(1, 10), Q(1, 2), Q(3, 4), Num(1), Num(10), Q(1, 2)>> }

\* the tables of the runs: each soil keeps its literal list or gets an edited one
Tables ==
    {f \in [DOMAIN LiteralParameters -> EditedParameters \cup {LiteralParameters[x] : x \in DOMAIN LiteralParameters}] :
        \A x \in DOMAIN f : f[x] \in EditedParameters \cup {LiteralParameters[x]}}

\* vars()[name] = value
Put(f, name, value) == [x \in DOMAIN f \cup {name} |-> IF x = name THEN value ELSE f[x]]

NoFunction == [fn |-> "", psi |-> <<>>, params |-> <<>>, ratio |-> Num(0), figure |-> <<>>]
NoReturn == [done |-> FALSE, raised |-> "", theta |-> <<>>, K |-> <<>>]

Init ==
    /\ pc = 92
    /\ raised = ""
    /\ table \in Tables
    /\ VGM_parameters = <<>>
    /\ log10_h = <<>>
    /\ psi = <<>>
    /\ soil = ""
    /\ ns = <<>>
    /\ row = -1
    /\ axs = <<>>
    /\ ticks_x = <<>> /\ ticklabels_x = <<>> /\ ticks_y = <<>> /\ ticklabels_y = <<>>
    /\ minor_ticks = <<>>
    /\ call = NoFunction
    /\ ret = NoReturn

\* the statement at line `from` runs and the one at line `to` is next
Goto(from, to) == pc = from /\ raised = "" /\ pc' = to /\ raised' = ""

\* VGM_parameters = {...}
Stmt_VGM_parameters ==
    /\ Goto(92, 111)
    /\ VGM_parameters' = table
    /\ UNCHANGED <<table, log10_h, psi, soil, ns, row, axs, tickVars, fnVars>>

\* log10_h = np.arange(0, 6, 0.1)
Stmt_log10_h ==
    /\ Goto(111, 112)
    /\ log10_h' = Arange(Num(0), Num(6), Q(1, 10))
    /\ UNCHANGED <<table, VGM_parameters, psi, soil, ns, row, axs, tickVars, fnVars>>

\* psi without the minus sign: 10**log10_h
PosPow10(x) == Pow(Num(10), x)

\* -10**x: the power binds tighter than the sign
NegPow10(x) == Neg(Pow(Num(10), x))

\* psi = -10**log10_h
Stmt_psi ==
    /\ Goto(112, 121)
    /\ psi' = A1(NegPow10, log10_h)
    /\ soil' = Soils[1]
    /\ UNCHANGED <<table, VGM_parameters, log10_h, ns, row, axs, tickVars, fnVars>>

\* the soil after s in the loop's list, "" after the last
NextSoil(s) ==
    LET i == CHOOSE j \in 1..Len(Soils) : Soils[j] = s
    IN  IF i = Len(Soils) THEN "" ELSE Soils[i + 1]

\* CallOnSoil with the first two values of the list bound the other way round
CallOnSoil_swapped(p, s) ==
    LET a == VGM_parameters[s]
    IN  VGM_theta_K(p, a[2], a[1], a[3], a[4], a[5], a[6])

\* VGM_theta_K(psi, *VGM_parameters[soil])
CallOnSoil(p, s) ==
    LET a == VGM_parameters[s]
    IN  VGM_theta_K(p, a[1], a[2], a[3], a[4], a[5], a[6])

\* Loop with the exception caught and the soil skipped
Loop_catching ==
    /\ pc = 121 /\ raised = ""
    /\ LET r == CallOnSoil(psi, soil)
       IN  /\ raised' = ""
           /\ ns' = IF r.raised # "" THEN ns
                    ELSE Put(Put(ns, "theta_VGM_" \o soil, r.theta), "K_VGM_" \o soil, r.K)
           /\ soil' = IF NextSoil(soil) = "" THEN soil ELSE NextSoil(soil)
           /\ pc' = IF NextSoil(soil) = "" THEN 145 ELSE 121
    /\ UNCHANGED <<table, dataVars, row, axs, tickVars, fnVars>>

\* one iteration of
\*   for soil in [...]:
\*       vars()['theta_VGM_'+ soil], vars()['K_VGM_'+ soil] = VGM_theta_K(psi, *VGM_parameters[soil])
\* the right-hand side is evaluated first; an exception leaves both names unwritten
\* and, being uncaught, ends the run
Loop ==
    /\ pc = 121 /\ raised = ""
    /\ LET r == CallOnSoil(psi, soil)
       IN  IF r.raised # ""
           THEN /\ raised' = r.raised
                /\ UNCHANGED <<pc, soil, ns>>
           ELSE /\ raised' = ""
                /\ ns' = Put(Put(ns, "theta_VGM_" \o soil, r.theta), "K_VGM_" \o soil, r.K)
                /\ soil' = IF NextSoil(soil) = "" THEN soil ELSE NextSoil(soil)
                /\ pc' = IF NextSoil(soil) = "" THEN 145 ELSE 121
    /\ UNCHANGED <<table, dataVars, row, axs, tickVars, fnVars>>

(***************************************************************************)
(* The plotting cell.  An axes object holds its view limits, its aspect,   *)
(* its lines and its ticks.  matplotlib chooses the view limits itself     *)
(* when a line is plotted or ticks are set (autoscaling, widening to the   *)
(* ticks); the model leaves those limits unevaluated.  Calls that only     *)
(* style the figure (rcParams, tick_params, axis labels) are not steps.    *)
(***************************************************************************)
AutoLimits == <<Sym(<<"autoscale", Num(0)>>), Sym(<<"autoscale", Num(1)>>)>>

NewAxes ==
    [xlim |-> <<Num(0), Num(1)>>, ylim |-> <<Num(0), Num(1)>>,
     aspect |-> Sym(<<"auto">>), adjustable |-> "box", lines |-> <<>>,
     xticks |-> <<>>, xticklabels |-> <<>>, xminor |-> <<>>,
     yticks |-> <<>>, yticklabels |-> <<>>, yminor |-> <<>>,
     yminor_locator |-> "", legend |-> FALSE]

\* fixed_aspect_ratio_row acting on axs[0] whatever row is
fixed_aspect_ratio_row_first_panel(ratio, a, r) ==
    LET xvals == a[0].xlim
        yvals == a[0].ylim
        xrange == Sub(xvals[2], xvals[1])
        yrange == Sub(yvals[2], yvals[1])
    IN  [a EXCEPT ![0].aspect = NpVal(Mul(ratio, NpVal(Div(xrange, yrange)))),
                  ![0].adjustable = "box"]

\* def fixed_aspect_ratio_row(ratio): reads the globals axs and row
fixed_aspect_ratio_row(ratio, a, r) ==
    LET xvals == a[r].xlim
        yvals == a[r].ylim
        xrange == Sub(xvals[2], xvals[1])
        yrange == Sub(yvals[2], yvals[1])
    IN  [a EXCEPT ![r].aspect = NpVal(Mul(ratio, NpVal(Div(xrange, yrange)))),
                  ![r].adjustable = "box"]

\* fig, axs = plt.subplots(1, 2, ...)
Stmt_subplots ==
    /\ Goto(145, 153)
    /\ axs' = [i \in 0..1 |-> NewAxes]
    /\ UNCHANGED <<table, dataVars, soil, ns, row, tickVars, fnVars>>

\* row = 0 / row = 1
Stmt_row(from, to, value) ==
    /\ Goto(from, to)
    /\ row' = value
    /\ UNCHANGED <<table, dataVars, soil, ns, axs, tickVars, fnVars>>

\* theta_<soil> = vars()['theta_VGM_'+ '<soil>']
Stmt_theta(from, to, s) ==
    /\ Goto(from, to)
    /\ ("theta_VGM_" \o s) \in DOMAIN ns
    /\ ns' = Put(ns, "theta_" \o s, ns["theta_VGM_" \o s])
    /\ UNCHANGED <<table, dataVars, soil, row, axs, tickVars, fnVars>>

\* log_K_<soil> = np.log10(vars()['K_VGM_'+ '<soil>'])
Stmt_log_K(from, to, s) ==
    /\ Goto(from, to)
    /\ ("K_VGM_" \o s) \in DOMAIN ns
    /\ ns' = Put(ns, "log_K_" \o s, A1(Log10, ns["K_VGM_" \o s]))
    /\ UNCHANGED <<table, dataVars, soil, row, axs, tickVars, fnVars>>

\* axs[i].plot(log10_h, <name>, ..., label=...)
Stmt_plot(from, to, i, name, label) ==
    /\ Goto(from, to)
    /\ name \in DOMAIN ns
    /\ axs' = [axs EXCEPT ![i].lines = Append(@, [x |-> log10_h, y |-> ns[name], label |-> label]),
                          ![i].xlim = AutoLimits, ![i].ylim = AutoLimits]
    /\ UNCHANGED <<table, dataVars, soil, ns, row, tickVars, fnVars>>

\* TickLabels formatting the position in the list instead of the tick
TickLabels_by_index(base, ticks) == [i \in 1..Len(ticks) |-> base \o "$^{" \o ToString(i - 1) \o "}$"]

\* r"<base>$^{{{}}}$".format(tick) for tick in ticks
TickLabels(base, ticks) == [i \in 1..Len(ticks) |-> base \o "$^{" \o ToString(ticks[i].n) \o "}$"]

\* ticks_x = np.arange(start, stop, 1)
Stmt_ticks_x(from, to, start, stop) ==
    /\ Goto(from, to)
    /\ ticks_x' = Arange(Num(start), Num(stop), Num(1))
    /\ UNCHANGED <<table, dataVars, soil, ns, row, axs, ticklabels_x, ticks_y, ticklabels_y, minor_ticks, fnVars>>

\* ticklabels_x = [r"-10$^{{{}}}$".format(tick) for tick in ticks_x]
Stmt_ticklabels_x(from, to) ==
    /\ Goto(from, to)
    /\ ticklabels_x' = TickLabels("-10", ticks_x)
    /\ UNCHANGED <<table, dataVars, soil, ns, row, axs, ticks_x, ticks_y, ticklabels_y, minor_ticks, fnVars>>

\* axs[i].set_xticks(ticks_x)
Stmt_set_xticks(from, to, i) ==
    /\ Goto(from, to)
    /\ axs' = [axs EXCEPT ![i].xticks = ticks_x, ![i].xlim = AutoLimits]
    /\ UNCHANGED <<table, dataVars, soil, ns, row, tickVars, fnVars>>

\* axs[i].set_xticklabels(ticklabels_x)
Stmt_set_xticklabels(from, to, i) ==
    /\ Goto(from, to)
    /\ axs' = [axs EXCEPT ![i].xticklabels = ticklabels_x]
    /\ UNCHANGED <<table, dataVars, soil, ns, row, tickVars, fnVars>>

\* the statement minor_ticks = [] left out: the list keeps its values
Stmt_minor_ticks_kept(from, to) ==
    /\ Goto(from, to)
    /\ minor_ticks' = minor_ticks
    /\ UNCHANGED <<table, dataVars, soil, ns, row, axs, ticks_x, ticklabels_x, ticks_y, ticklabels_y, fnVars>>

\* minor_ticks = []
Stmt_minor_ticks_empty(from, to) ==
    /\ Goto(from, to)
    /\ minor_ticks' = <<>>
    /\ UNCHANGED <<table, dataVars, soil, ns, row, axs, ticks_x, ticklabels_x, ticks_y, ticklabels_y, fnVars>>

\* i + np.log10(j)
MinorTick(i, j) == Add(Num(i), Log10(Num(j)))

\* for i in range(lo, hi):
\*     for j in range(2,10):
\*          minor_ticks.append(i+np.log10(j))
Stmt_minor_ticks_fill(from, to, lo, hi) ==
    /\ Goto(from, to)
    /\ minor_ticks' = minor_ticks \o
           [c \in 1..((hi - lo) * 8) |-> MinorTick(lo + ((c - 1) \div 8), 2 + ((c - 1) % 8))]
    /\ UNCHANGED <<table, dataVars, soil, ns, row, axs, ticks_x, ticklabels_x, ticks_y, ticklabels_y, fnVars>>

\* axs[i].set_xticks(minor_ticks, minor=True)
Stmt_set_xticks_minor(from, to, i) ==
    /\ Goto(from, to)
    /\ axs' = [axs EXCEPT ![i].xminor = minor_ticks, ![i].xlim = AutoLimits]
    /\ UNCHANGED <<table, dataVars, soil, ns, row, tickVars, fnVars>>

\* ticks_y = np.arange(start, stop, step)
Stmt_ticks_y(from, to, start, stop, step) ==
    /\ Goto(from, to)
    /\ ticks_y' = Arange(start, stop, step)
    /\ UNCHANGED <<table, dataVars, soil, ns, row, axs, ticks_x, ticklabels_x, ticklabels_y, minor_ticks, fnVars>>

\* ticklabels_y = [r"10$^{{{}}}$".format(tick) for tick in ticks_y]
Stmt_ticklabels_y(from, to) ==
    /\ Goto(from, to)
    /\ ticklabels_y' = TickLabels("10", ticks_y)
    /\ UNCHANGED <<table, dataVars, soil, ns, row, axs, ticks_x, ticklabels_x, ticks_y, minor_ticks, fnVars>>

\* axs[i].set_yticks(ticks_y)
Stmt_set_yticks(from, to, i) ==
    /\ Goto(from, to)
    /\ axs' = [axs EXCEPT ![i].yticks = ticks_y, ![i].ylim = AutoLimits]
    /\ UNCHANGED <<table, dataVars, soil, ns, row, tickVars, fnVars>>

\* axs[i].set_yticks(minor_ticks, minor=True)
Stmt_set_yticks_minor(from, to, i) ==
    /\ Goto(from, to)
    /\ axs' = [axs EXCEPT ![i].yminor = minor_ticks, ![i].ylim = AutoLimits]
    /\ UNCHANGED <<table, dataVars, soil, ns, row, tickVars, fnVars>>

\* axs[i].set_yticklabels(ticklabels_y)
Stmt_set_yticklabels(from, to, i) ==
    /\ Goto(from, to)
    /\ axs' = [axs EXCEPT ![i].yticklabels = ticklabels_y]
    /\ UNCHANGED <<table, dataVars, soil, ns, row, tickVars, fnVars>>

\* axs[0].yaxis.set_minor_locator(AutoMinorLocator(5))
Stmt_set_minor_locator(from, to, i) ==
    /\ Goto(from, to)
    /\ axs' = [axs EXCEPT ![i].yminor_locator = "AutoMinorLocator(5)"]
    /\ UNCHANGED <<table, dataVars, soil, ns, row, tickVars, fnVars>>

\* axs[i].set_xlim(lo, hi)
Stmt_set_xlim(from, to, i, lo, hi) ==
    /\ Goto(from, to)
    /\ axs' = [axs EXCEPT ![i].xlim = <<lo, hi>>]
    /\ UNCHANGED <<table, dataVars, soil, ns, row, tickVars, fnVars>>

\* axs[i].set_ylim(lo, hi)
Stmt_set_ylim(from, to, i, lo, hi) ==
    /\ Goto(from, to)
    /\ axs' = [axs EXCEPT ![i].ylim = <<lo, hi>>]
    /\ UNCHANGED <<table, dataVars, soil, ns, row, tickVars, fnVars>>

\* fixed_aspect_ratio_row(1.0)
Stmt_fixed_aspect_ratio_row(from, to) ==
    /\ Goto(from, to)
    /\ axs' = fixed_aspect_ratio_row(Num(1), axs, row)
    /\ UNCHANGED <<table, dataVars, soil, ns, row, tickVars, fnVars>>

\* axs[1].legend(...)
Stmt_legend ==
    /\ Goto(254, 0)
    /\ axs' = [axs EXCEPT ![1].legend = TRUE]
    /\ UNCHANGED <<table, dataVars, soil, ns, row, tickVars, fnVars>>

\* the statements of the plotting cell for the panel axs[0]
Panel0 ==
    \/ Stmt_subplots
    \/ Stmt_row(153, 156, 0)
    \/ Stmt_theta(156, 157, "sandy_loam")
    \/ Stmt_theta(157, 158, "loam")
    \/ Stmt_theta(158, 161, "silt_loam")
    \/ Stmt_log_K(161, 162, "sandy_loam")
    \/ Stmt_log_K(162, 163, "loam")
    \/ Stmt_log_K(163, 166, "silt_loam")
    \/ Stmt_plot(166, 167, 0, "theta_sandy_loam", "Sandy Loam")
    \/ Stmt_plot(167, 168, 0, "theta_loam", "Loam")
    \/ Stmt_plot(168, 171, 0, "theta_silt_loam", "Silt Loam")
    \/ Stmt_ticks_x(171, 172, -1, 6)
    \/ Stmt_ticklabels_x(172, 173)
    \/ Stmt_set_xticks(173, 174, 0)
    \/ Stmt_set_xticklabels(174, 176, 0)
    \/ Stmt_minor_ticks_empty(176, 177)
    \/ Stmt_minor_ticks_fill(177, 182, -1, 6)
    \/ Stmt_set_xticks_minor(182, 186, 0)
    \/ Stmt_ticks_y(186, 187, Num(0), Q(5, 10), Q(1, 10))
    \/ Stmt_set_yticks(187, 190, 0)
    \/ Stmt_set_minor_locator(190, 197, 0)
    \/ Stmt_set_xlim(197, 198, 0, Num(0), Num(6))
    \/ Stmt_set_ylim(198, 203, 0, Num(0), Q(5, 10))
    \/ Stmt_fixed_aspect_ratio_row(203, 206)

\* the statements of the plotting cell for the panel axs[1]
Panel1 ==
    \/ Stmt_row(206, 209, 1)
    \/ Stmt_plot(209, 210, 1, "log_K_sandy_loam", "Sandy Loam")
    \/ Stmt_plot(210, 211, 1, "log_K_loam", "Loam")
    \/ Stmt_plot(211, 214, 1, "log_K_silt_loam", "Silt Loam")
    \/ Stmt_ticks_x(214, 215, 0, 6)
    \/ Stmt_ticklabels_x(215, 216)
    \/ Stmt_set_xticks(216, 217, 1)
    \/ Stmt_set_xticklabels(217, 219, 1)
    \/ Stmt_minor_ticks_empty(219, 220)
    \/ Stmt_minor_ticks_fill(220, 225, 0, 6)
    \/ Stmt_set_xticks_minor(225, 229, 1)
    \/ Stmt_ticks_y(229, 230, Num(-10), Num(3), Num(2))
    \/ Stmt_ticklabels_y(230, 231)
    \/ Stmt_minor_ticks_empty(231, 232)
    \/ Stmt_minor_ticks_fill(232, 236, -10, 3)
    \/ Stmt_set_yticks(236, 237, 1)
    \/ Stmt_set_yticks_minor(237, 238, 1)
    \/ Stmt_set_yticklabels(238, 246, 1)
    \/ Stmt_set_xlim(246, 247, 1, Num(0), Num(6))
    \/ Stmt_set_ylim(247, 252, 1, Num(-10), Num(3))
    \/ Stmt_fixed_aspect_ratio_row(252, 254)
    \/ Stmt_legend

Next == Stmt_VGM_parameters \/ Stmt_log10_h \/ Stmt_psi \/ Loop \/ Panel0 \/ Panel1
Spec == Init /\ [][Next]_vars

(***************************************************************************)
(* The two functions on their own: one call of VGM_theta_K on a psi array  *)
(* and a parameter list, or one call of fixed_aspect_ratio_row on a figure *)
(* whose limits have been set, the arguments drawn from small sets.        *)
(***************************************************************************)
\* matric potentials: 0 and negative values; with alpha = 1 and n = 2 the
\* suctions 3/4, 4/3 and 12/5 give a rational effective saturation
PsiValues == {Num(0), Num(-1), Q(-3, 4), Q(-4, 3), Q(-12, 5)}

RECURSIVE SeqsUpTo(_, _)
SeqsUpTo(S, len) ==
    IF len = 0 THEN {<<>>}
    ELSE LET shorter == SeqsUpTo(S, len - 1)
         IN  shorter \cup {Append(q, v) : q \in {r \in shorter : Len(r) = len - 1}, v \in S}

PsiArrays == SeqsUpTo(PsiValues, MaxLen)

\* (theta_r, theta_s): the literal soils' pairs, an ordinary pair, a reversed
\* pair and an equal pair
ThetaPairs ==
    {<<LiteralParameters[s][1], LiteralParameters[s][2]>> : s \in DOMAIN LiteralParameters}
        \cup {<<Q(1, 10), Q(1, 2)>>, <<Q(1, 2), Q(1, 10)>>, <<Q(1, 5), Q(1, 5)>>}

\* (K_s, l)
ConductivityPairs == {<<Num(10), Num(1)>>, <<Num(20), Num(2)>>, <<Q(1061, 10), Q(1, 2)>>}

\* (K_s, l) outside the physical range: a negative K_s, a negative l
UnphysicalPairs == {<<Num(-10), Num(1)>>, <<Num(10), Num(-3)>>}

\* parameter lists: the literal ones, lists with n = 2, lists with the invalid
\* n = 1 and with n = 3/2, and lists with a negative K_s or a negative l
FnParameters ==
    {LiteralParameters[s] : s \in DOMAIN LiteralParameters}
        \cup {<<tp[1], tp[2], a, Num(2), kl[1], kl[2]>> :
                tp \in ThetaPairs, a \in {Num(1), Q(3, 4)}, kl \in ConductivityPairs}
        \cup {<<Q(1, 10), Q(1, 2), a, n, Num(10), Num(1)>> :
                a \in {Num(1), Q(3, 4)}, n \in {Num(1), Q(3, 2)}}
        \cup {<<Q(1, 10), Q(1, 2), Num(1), Num(2), kl[1], kl[2]>> : kl \in UnphysicalPairs}

\* view limits as set_xlim / set_ylim leave them (the two ends differ; an
\* axis may be inverted)
XLimits == {<<Num(0), Num(6)>>, <<Num(6), Num(0)>>, <<Num(-1), Num(6)>>}
YLimits == {<<Num(0), Q(1, 2)>>, <<Num(-10), Num(3)>>, <<Num(3), Num(-10)>>, <<Q(1, 2), Num(0)>>}
Ratios == {Num(1), Q(1, 2), Num(2)}

VGMCalls ==
    {[fn |-> "VGM_theta_K", psi |-> p, params |-> a, ratio |-> Num(0), figure |-> <<>>] :
        p \in PsiArrays, a \in FnParameters}

\* the figure before a call of fixed_aspect_ratio_row: the panel axs[r] has the
\* limits xl, yl, the other panel keeps those of a new axes
FigureWith(r, xl, yl) ==
    [i \in 0..1 |-> IF i = r THEN [NewAxes EXCEPT !.xlim = xl, !.ylim = yl] ELSE NewAxes]

\* the call records the figure it starts from
AspectCalls ==
    {[fn |-> "fixed_aspect_ratio_row", psi |-> <<>>, params |-> <<>>, ratio |-> r,
      figure |-> FigureWith(i, xl, yl)] :
        r \in Ratios, i \in 0..1, xl \in XLimits, yl \in YLimits}

InitIdle ==
    /\ pc = -1
    /\ raised = ""
    /\ table = LiteralParameters
    /\ VGM_parameters = <<>>
    /\ log10_h = <<>>
    /\ psi = <<>>
    /\ soil = ""
    /\ ns = <<>>
    /\ ticks_x = <<>> /\ ticklabels_x = <<>> /\ ticks_y = <<>> /\ ticklabels_y = <<>>
    /\ minor_ticks = <<>>
    /\ ret = NoReturn

InitFn ==
    /\ InitIdle
    /\ \/ /\ call \in VGMCalls
          /\ row = -1
          /\ axs = <<>>
       \/ /\ call \in AspectCalls
          /\ row \in 0..1
          /\ call.figure[row] # NewAxes
          /\ axs = call.figure

\* theta, K = VGM_theta_K(psi, theta_r, theta_s, alpha, n, K_s, l)
Call_VGM_theta_K ==
    /\ pc = -1 /\ ~ret.done
    /\ call.fn = "VGM_theta_K"
    /\ LET a == call.params
           r == VGM_theta_K(call.psi, a[1], a[2], a[3], a[4], a[5], a[6])
       IN  ret' = [done |-> TRUE, raised |-> r.raised, theta |-> r.theta, K |-> r.K]
    /\ UNCHANGED <<pc, raised, table, dataVars, soil, ns, row, axs, tickVars, call>>

\* fixed_aspect_ratio_row(ratio)
Call_fixed_aspect_ratio_row ==
    /\ pc = -1 /\ ~ret.done
    /\ call.fn = "fixed_aspect_ratio_row"
    /\ axs' = fixed_aspect_ratio_row(call.ratio, axs, row)
    /\ ret' = [ret EXCEPT !.done = TRUE]
    /\ UNCHANGED <<pc, raised, table, dataVars, soil, ns, row, tickVars, call>>

NextFn == Call_VGM_theta_K \/ Call_fixed_aspect_ratio_row
SpecFn == InitFn /\ [][NextFn]_vars

(***************************************************************************)
(* Properties of VGM_theta_K, checked under SpecFn.  A property about the  *)
(* value of an element speaks of the elements whose value the model has as *)
(* a rational.                                                             *)
(***************************************************************************)
Returned == call.fn = "VGM_theta_K" /\ ret.done

\* alpha > 0 and n > 1
ValidShape(a) == QLt(Num(0), a[3]) /\ QLt(Num(1), a[4])

\* the documented retention curve (equation VGM_theta of the notebook's first cell):
\* theta_r + (theta_s - theta_r) / (1 + (-alpha*psi)^n)^m, m = 1 - 1/n
DocTheta(p, theta_r, theta_s, alpha, n) ==
    LET m == Sub(Num(1), Div(Num(1), n))
    IN  Add(theta_r, Div(Sub(theta_s, theta_r), Pow(Add(Num(1), Pow(Mul(Neg(alpha), p), n)), m)))

\* the documented effective saturation of a water content (equation effective_saturation)
DocS_e(theta, theta_r, theta_s) == Div(Sub(theta, theta_r), Sub(theta_s, theta_r))

\* the documented conductivity of an effective saturation (equation VGM_K)
DocK(S_e, n, K_s, l) ==
    LET m == Sub(Num(1), Div(Num(1), n))
    IN  Mul(Mul(K_s, Pow(S_e, l)),
            Pow(Sub(Num(1), Pow(Sub(Num(1), Pow(S_e, Div(Num(1), m))), m)), Num(2)))

\* the effective saturation the call computes for its psi array
CallS_e == VGM_S_e(call.psi, call.params[3], call.params[4], VGM_m(call.params[4]))

\* C1: for psi < 0, alpha > 0, n > 1 and theta_r < theta_s the call returns and
\* the first returned value is theta_r + (theta_s - theta_r)/(1 + (-alpha*psi)^n)^m
\* with m = 1 - 1/n, element by element.
C1_ThetaIsDocumentedCurve ==
    (Returned /\ ValidShape(call.params) /\ QLt(call.params[1], call.params[2])) =>
        /\ ret.raised = ""
        /\ \A i \in 1..Len(call.psi) :
             LET a == call.params
                 doc == DocTheta(call.psi[i], a[1], a[2], a[3], a[4])
             IN  (QLt(call.psi[i], Num(0)) /\ IsQ(doc)) => ret.theta[i] = doc

\* C1 witness: a returned water content strictly between the limits at a negative psi
C1_Witness ==
    /\ Returned /\ ValidShape(call.params) /\ QLt(call.params[1], call.params[2])
    /\ \E i \in 1..Len(call.psi) :
         /\ QLt(call.psi[i], Num(0))
         /\ IsQ(ret.theta[i])
         /\ QLt(call.params[1], ret.theta[i]) /\ QLt(ret.theta[i], call.params[2])

\* C2: under the same conditions the second returned value is
\* K_s * S_e^l * (1 - (1 - S_e^(1/m))^m)^2, S_e being the effective saturation
\* (theta - theta_r)/(theta_s - theta_r) of the theta returned by the same call.
C2_KIsDocumentedConductivity ==
    (Returned /\ ValidShape(call.params) /\ QLt(call.params[1], call.params[2])) =>
        /\ ret.raised = ""
        /\ \A i \in 1..Len(call.psi) :
             LET a == call.params
                 doc == DocK(DocS_e(ret.theta[i], a[1], a[2]), a[4], a[5], a[6])
             IN  (QLt(call.psi[i], Num(0)) /\ IsQ(doc)) => ret.K[i] = doc

\* C2 witness: a returned conductivity strictly between 0 and K_s at a negative psi
C2_Witness ==
    /\ Returned /\ ValidShape(call.params) /\ QLt(call.params[1], call.params[2])
    /\ \E i \in 1..Len(call.psi) :
         /\ QLt(call.psi[i], Num(0))
         /\ IsQ(ret.K[i])
         /\ QLt(Num(0), ret.K[i]) /\ QLt(ret.K[i], call.params[5])

\* (theta_r, theta_s) of one of the three literal soils
LiteralLimits(a) == \E s \in DOMAIN LiteralParameters :
    a[1] = LiteralParameters[s][1] /\ a[2] = LiteralParameters[s][2]

C4_SaturationRoundTrip ==
    (Returned /\ ret.raised = "" /\ call.params[1] # call.params[2]) =>
        LET a == call.params
            S == CallS_e
        IN  \A i \in 1..Len(call.psi) :
              (QLe(call.psi[i], Num(0)) /\ IsQ(S[i])) =>
                    DocS_e(ret.theta[i], a[1], a[2]) = S[i]

\* C4 witness: theta_s below theta_r, an effective saturation strictly below 1
C4_Witness ==
    /\ Returned /\ ret.raised = "" /\ QLt(call.params[2], call.params[1])
    /\ \E i \in 1..Len(call.psi) : IsQ(CallS_e[i]) /\ QLt(CallS_e[i], Num(1))

\* what the call returns for the one-element array holding p
OnOneElement(p) ==
    LET a == call.params
    IN  VGM_theta_K(<<p>>, a[1], a[2], a[3], a[4], a[5], a[6])

\* C5: for a psi array of length N the call returns a theta array and a K array
\* of length N, and element i of each is what the call returns for psi[i] alone,
\* whatever the other elements are.
C5_ElementWise ==
    (Returned /\ ret.raised = "") =>
        /\ Len(ret.theta) = Len(call.psi)
        /\ Len(ret.K) = Len(call.psi)
        /\ \A i \in 1..Len(call.psi) :
             LET alone == OnOneElement(call.psi[i])
             IN  ret.theta[i] = alone.theta[1] /\ ret.K[i] = alone.K[1]

\* C5 witness: an array of two different potentials with different results
C5_Witness ==
    /\ Returned /\ ret.raised = ""
    /\ Len(call.psi) >= 2
    /\ call.psi[1] # call.psi[2]
    /\ ret.theta[1] # ret.theta[2]
    /\ ret.K[1] # ret.K[2]

\* |a| for a rational a
QAbs(a) == Q(Abs(a.n), a.d)

\* height / width of the box matplotlib draws for an axes whose data aspect is
\* set with adjustable='box': the aspect times the data ratio
\* |y1 - y0| / |x1 - x0|
BoxRatio(ax) ==
    QMul(ax.aspect, QDiv(QAbs(QSub(ax.ylim[2], ax.ylim[1])), QAbs(QSub(ax.xlim[2], ax.xlim[1]))))

\* C9: for limits (x0, x1), (y0, y1) with y0 # y1, fixed_aspect_ratio_row(ratio)
\* sets the data aspect of axs[row] to ratio * (x1 - x0) / (y1 - y0), so the drawn
\* box has height/width = ratio whatever the limits are; nothing but the aspect
\* changes, the limits included.
C9_FixedAspectWhateverLimits ==
    (call.fn = "fixed_aspect_ratio_row" /\ ret.done) =>
        LET was == call.figure[row]
            now == axs[row]
        IN  (was.ylim[1] # was.ylim[2]) =>
              /\ now.aspect = QDiv(QMul(call.ratio, QSub(was.xlim[2], was.xlim[1])),
                                   QSub(was.ylim[2], was.ylim[1]))
              /\ BoxRatio(now) = call.ratio
              /\ now.xlim = was.xlim /\ now.ylim = was.ylim
              /\ [now EXCEPT !.aspect = was.aspect] = was
              /\ axs[1 - row] = call.figure[1 - row]

(***************************************************************************)
(* Properties of the notebook's run, checked under Spec.                   *)
(***************************************************************************)
SoilNames == {Soils[i] : i \in 1..Len(Soils)}

\* the plotting cell has started (or the run has finished)
InPlotCell == pc >= 145 \/ pc = 0

\* v is negative: a negative rational, or the negation of a power of the
\* positive base 10
IsNegative(v) ==
    IF IsQ(v) THEN v.n < 0
    ELSE /\ v.k = "sym" /\ v.t[1] = "neg"
         /\ v.t[2].k = "sym" /\ v.t[2].t[1] = "pow" /\ v.t[2].t[2] = Num(10)

\* the exponent e of a negative v = -(10^e)
Exponent10(v) == IF IsQ(v) THEN QLog10(Q(-v.n, v.d)) ELSE v.t[2].t[3]

\* a < b for two negative powers of ten: 10^x grows with x
NegPowLt(a, b) == QLt(Exponent10(b), Exponent10(a))

\* C6: log10_h holds exactly the 60 values 0, 0.1, ..., 5.9 (6 excluded),
\* consecutive values differ by 0.1, psi[i] = -(10^log10_h[i]), every psi[i] is
\* strictly negative, psi[0] = -1 and psi is strictly decreasing.
C6_Grid ==
    /\ (pc \notin {92, 111}) =>
          /\ Len(log10_h) = 60
          /\ \A i \in 1..Len(log10_h) :
                /\ log10_h[i] = Q(i - 1, 10)
                /\ QLt(log10_h[i], Num(6))
                /\ i > 1 => QSub(log10_h[i], log10_h[i - 1]) = Q(1, 10)
    /\ (pc \notin {92, 111, 112}) =>
          /\ Len(psi) = 60
          /\ psi[1] = Num(-1)
          /\ \A i \in 1..Len(psi) :
                /\ IsNegative(psi[i])
                /\ IsQ(Exponent10(psi[i]))
                /\ Exponent10(psi[i]) = log10_h[i]
                /\ i > 1 => NegPowLt(psi[i], psi[i - 1])

\* C6 witness: the grid cell has run; the last point is -(10^5.9), the point
\* with log10_h = 2 is -100
C6_Witness ==
    /\ pc = 121
    /\ Len(psi) = 60
    /\ Exponent10(psi[60]) = Q(59, 10)
    /\ psi[21] = Num(-100)

\* what the loop has to store for soil s: the call on psi with the six values
\* of the soil's list bound in order to theta_r, theta_s, alpha, n, K_s, l
Bound(s) ==
    LET theta_r == VGM_parameters[s][1]
        theta_s == VGM_parameters[s][2]
        alpha == VGM_parameters[s][3]
        n == VGM_parameters[s][4]
        K_s == VGM_parameters[s][5]
        l == VGM_parameters[s][6]
    IN  VGM_theta_K(psi, theta_r, theta_s, alpha, n, K_s, l)

\* C7: the loop has completed for all three soils before the plotting cell
\* starts; each stored pair is the call's (theta, K) for that soil's own list,
\* bound positionally; every value the plotting cell reads and plots was written
\* by the loop for the same soil, and no soil's result overwrites another's.
C7_LoopBeforePlot ==
    /\ InPlotCell =>
          \A s \in SoilNames : {"theta_VGM_" \o s, "K_VGM_" \o s} \subseteq DOMAIN ns
    /\ \A i \in 1..Len(Soils) :
          LET s == Soils[i]
              b == Bound(s)
          IN  (("theta_VGM_" \o s) \in DOMAIN ns \/ ("K_VGM_" \o s) \in DOMAIN ns) =>
                /\ {"theta_VGM_" \o s, "K_VGM_" \o s} \subseteq DOMAIN ns
                /\ ns["theta_VGM_" \o s] = b.theta
                /\ ns["K_VGM_" \o s] = b.K
                /\ ("theta_" \o s) \in DOMAIN ns => ns["theta_" \o s] = b.theta
                /\ ("log_K_" \o s) \in DOMAIN ns => ns["log_K_" \o s] = A1(Log10, b.K)
                /\ (pc >= 171 \/ pc = 0) => axs[0].lines[i].y = b.theta
                /\ (pc >= 214 \/ pc = 0) => axs[1].lines[i].y = A1(Log10, b.K)
    /\ \A s \in SoilNames :
          {"theta_" \o s, "log_K_" \o s} \cap DOMAIN ns # {} => ("theta_VGM_" \o s) \in DOMAIN ns

\* C7 witness: the run has finished on a table whose three soils have different
\* lists and different results
C7_Witness ==
    /\ pc = 0
    /\ \A s1, s2 \in SoilNames : s1 # s2 =>
          /\ VGM_parameters[s1] # VGM_parameters[s2]
          /\ ns["theta_VGM_" \o s1] # ns["theta_VGM_" \o s2]
          /\ ns["K_VGM_" \o s1] # ns["K_VGM_" \o s2]

\* the soil's list has the invalid shape parameter n = 1
InvalidShape(s) == table[s][4] = Num(1)

\* C8: nothing validates or catches: with n = 1 the call ends with the raw
\* ZeroDivisionError, returns no pair, no result name is written for that soil,
\* and the run does not continue.
C8_NoFailureHandling ==
    /\ raised \in {"", "ZeroDivisionError"}
    /\ \A s \in SoilNames :
          InvalidShape(s) => {"theta_VGM_" \o s, "K_VGM_" \o s} \cap DOMAIN ns = {}
    /\ (pc = 121 /\ InvalidShape(soil)) => (raised = "ZeroDivisionError" \/ ENABLED Loop)
    /\ raised # "" => (pc = 121 /\ InvalidShape(soil) /\ ~ENABLED Next)
    /\ InPlotCell => \A s \in SoilNames : ~InvalidShape(s)

\* C8 witness: the second soil's call raised after the first soil's pair was stored
C8_Witness ==
    /\ raised = "ZeroDivisionError"
    /\ soil = "loam"
    /\ "theta_VGM_sandy_loam" \in DOMAIN ns
    /\ "theta_VGM_loam" \notin DOMAIN ns

\* C10: each call of fixed_aspect_ratio_row(1.0) acts on the panel just styled:
\* row is 0, then 1, and the panel's set_xlim/set_ylim have run before the call;
\* the first call gives axs[0] (x 0..6, y 0..0.5) the aspect 12, the second gives
\* axs[1] (x 0..6, y -10..3) the aspect 6/13, and neither touches the other panel.
C10_AspectCallsInOrder ==
    /\ pc = 203 =>
          /\ row = 0
          /\ axs[0].xlim = <<Num(0), Num(6)>> /\ axs[0].ylim = <<Num(0), Q(1, 2)>>
    /\ pc = 252 =>
          /\ row = 1
          /\ axs[1].xlim = <<Num(0), Num(6)>> /\ axs[1].ylim = <<Num(-10), Num(3)>>
    /\ (pc >= 153 /\ pc <= 203) =>
          axs[0].aspect = NewAxes.aspect /\ axs[1].aspect = NewAxes.aspect
    /\ (pc >= 206 \/ pc = 0) =>
          /\ axs[0].aspect = Num(12)
          /\ axs[0].xlim = <<Num(0), Num(6)>> /\ axs[0].ylim = <<Num(0), Q(1, 2)>>
    /\ (pc >= 206 /\ pc <= 252) => axs[1].aspect = NewAxes.aspect
    /\ (pc = 254 \/ pc = 0) =>
          /\ axs[1].aspect = Q(6, 13)
          /\ axs[1].xlim = <<Num(0), Num(6)>> /\ axs[1].ylim = <<Num(-10), Num(3)>>

\* C10 witness: both calls have run
C10_Witness ==
    /\ pc = 0
    /\ axs[0].aspect = Num(12)
    /\ axs[1].aspect = Q(6, 13)

(***************************************************************************)
(* Reading a tick label back: "<base>$^{<exponent>}$" is mathtext for the  *)
(* base with the exponent as superscript.                                  *)
(***************************************************************************)
Digits == <<"0", "1", "2", "3", "4", "5", "6", "7", "8", "9">>

IsDigit(c) == \E d \in 1..Len(Digits) : Digits[d] = c

DigitValue(c) == (CHOOSE d \in 1..Len(Digits) : Digits[d] = c) - 1

\* a nonempty string of decimal digits
IsNatural(str) == Len(str) > 0 /\ \A i \in 1..Len(str) : IsDigit(SubSeq(str, i, i))

RECURSIVE ParseNatural(_)
ParseNatural(str) ==
    IF Len(str) = 0 THEN 0
    ELSE 10 * ParseNatural(SubSeq(str, 1, Len(str) - 1)) + DigitValue(SubSeq(str, Len(str), Len(str)))

IsInteger(str) ==
    IF Len(str) > 0 /\ SubSeq(str, 1, 1) = "-" THEN IsNatural(SubSeq(str, 2, Len(str))) ELSE IsNatural(str)

ParseInteger(str) ==
    IF SubSeq(str, 1, 1) = "-" THEN 0 - ParseNatural(SubSeq(str, 2, Len(str))) ELSE ParseNatural(str)

\* the positions where the superscript "$^{" opens
SuperscriptAt(label) == {p \in 1..(Len(label) - 2) : SubSeq(label, p, p + 2) = "$^{"}

\* a label of the form <base>$^{<integer>}$
IsPowerLabel(label) ==
    /\ Cardinality(SuperscriptAt(label)) = 1
    /\ Len(label) >= 5
    /\ SubSeq(label, Len(label) - 1, Len(label)) = "}$"
    /\ LET p == CHOOSE q \in SuperscriptAt(label) : TRUE
       IN  p + 3 <= Len(label) - 2 /\ IsInteger(SubSeq(label, p + 3, Len(label) - 2))

LabelBase(label) ==
    LET p == CHOOSE q \in SuperscriptAt(label) : TRUE IN SubSeq(label, 1, p - 1)

LabelExponent(label) ==
    LET p == CHOOSE q \in SuperscriptAt(label) : TRUE IN ParseInteger(SubSeq(label, p + 3, Len(label) - 2))

\* the value a power label denotes: -(10^k) for the base "-10", 10^k for "10"
Denoted(label) ==
    IF LabelBase(label) = "-10" THEN Neg(Pow(Num(10), Num(LabelExponent(label))))
    ELSE IF LabelBase(label) = "10" THEN Pow(Num(10), Num(LabelExponent(label)))
    ELSE Sym(<<"text", label>>)

\* the labels are one per major tick, each the power label of its integer tick
LabelsMatchTicks(ticks, labels, base) ==
    /\ Len(labels) = Len(ticks)
    /\ \A i \in 1..Len(ticks) :
          /\ IsQ(ticks[i]) /\ ticks[i].d = 1
          /\ IsPowerLabel(labels[i])
          /\ LabelBase(labels[i]) = base
          /\ LabelExponent(labels[i]) = ticks[i].n

\* the grid points whose log10_h is the integer k
GridPointsAt(k) == {j \in 1..Len(log10_h) : log10_h[j] = Num(k)}

\* C11 as stated: in every set_xticklabels/set_yticklabels call the label list
\* has as many entries as the major tick list of that axis, and the label at
\* integer tick position k denotes -10^k on the two x-axes, which is the psi
\* value of the grid point with log10_h = k, and 10^k on the conductivity y-axis.
C11_LabelsDenoteGridPsi ==
    \A a \in DOMAIN axs :
        /\ axs[a].xticklabels # <<>> =>
              /\ LabelsMatchTicks(axs[a].xticks, axs[a].xticklabels, "-10")
              /\ \A i \in 1..Len(axs[a].xticks) :
                    /\ Denoted(axs[a].xticklabels[i]) = NegPow10(axs[a].xticks[i])
                    /\ \E j \in GridPointsAt(axs[a].xticks[i].n) :
                          psi[j] = Denoted(axs[a].xticklabels[i])
        /\ axs[a].yticklabels # <<>> =>
              /\ a = 1
              /\ LabelsMatchTicks(axs[a].yticks, axs[a].yticklabels, "10")
              /\ \A i \in 1..Len(axs[a].yticks) :
                    Denoted(axs[a].yticklabels[i]) = Pow(Num(10), axs[a].yticks[i])

\* C11 amended: in every set_xticklabels/set_yticklabels call the label list has
\* as many entries as the major tick list of that axis, and the label at integer
\* tick position k denotes -10^k on the two x-axes and 10^k on the conductivity
\* y-axis; for k = 0..5 that -10^k is the psi value of the grid point with
\* log10_h = k, while the tick k = -1 of the first x-axis has no grid point.
C11_MajorTickLabels ==
    \A a \in DOMAIN axs :
        /\ axs[a].xticklabels # <<>> =>
              /\ LabelsMatchTicks(axs[a].xticks, axs[a].xticklabels, "-10")
              /\ \A i \in 1..Len(axs[a].xticks) :
                    LET k == axs[a].xticks[i].n
                    IN  /\ Denoted(axs[a].xticklabels[i]) = NegPow10(axs[a].xticks[i])
                        /\ k \in 0..5 =>
                              /\ Cardinality(GridPointsAt(k)) = 1
                              /\ \A j \in GridPointsAt(k) : psi[j] = Denoted(axs[a].xticklabels[i])
                        /\ k \notin 0..5 => (a = 0 /\ k = -1 /\ GridPointsAt(k) = {})
        /\ axs[a].yticklabels # <<>> =>
              /\ a = 1
              /\ LabelsMatchTicks(axs[a].yticks, axs[a].yticklabels, "10")
              /\ \A i \in 1..Len(axs[a].yticks) :
                    Denoted(axs[a].yticklabels[i]) = Pow(Num(10), axs[a].yticks[i])

\* C11 witness: all three label lists have been handed over: 7 labels from
\* -10^-1 on the first x-axis, 6 from -10^0 on the second, 7 from 10^-10 to 10^2
\* on the conductivity axis
C11_Witness ==
    /\ pc = 0
    /\ Len(axs[0].xticklabels) = 7 /\ axs[0].xticklabels[1] = "-10$^{-1}$"
    /\ Len(axs[1].xticklabels) = 6 /\ axs[1].xticklabels[1] = "-10$^{0}$"
    /\ Len(axs[1].yticklabels) = 7 /\ axs[1].yticklabels[1] = "10$^{-10}$"
    /\ axs[1].yticklabels[7] = "10$^{2}$"

(***************************************************************************)
(* Minor ticks are terms i + log10(j) with an integer i and an integer j.  *)
(* log10 is strictly increasing with log10(1) = 0 and log10(10) = 1, so    *)
(* for 1 < j < 10 the term lies strictly between i and i + 1.              *)
(***************************************************************************)
IsMinorTerm(v) ==
    /\ v.k = "sym" /\ Len(v.t) = 3 /\ v.t[1] = "add"
    /\ IsQ(v.t[2]) /\ v.t[2].d = 1
    /\ v.t[3].k = "sym" /\ Len(v.t[3].t) = 2 /\ v.t[3].t[1] = "log10"
    /\ IsQ(v.t[3].t[2]) /\ v.t[3].t[2].d = 1

\* the decade i and the multiple j of a term i + log10(j)
Decade(v) == v.t[2].n
Multiple(v) == v.t[3].t[2].n

\* i < v < i + 1 for the decade i of v
StrictlyInsideDecade(v) == IsMinorTerm(v) /\ 1 < Multiple(v) /\ Multiple(v) < 10

\* list holds, in the order of the loops, the 8 values i + log10(j), j = 2..9,
\* of each decade i = lo..hi-1 and nothing else
MinorTicksOf(list, lo, hi) ==
    /\ Len(list) = 8 * (hi - lo)
    /\ \A c \in 1..Len(list) :
          /\ IsMinorTerm(list[c])
          /\ Decade(list[c]) \in lo..(hi - 1)
          /\ Multiple(list[c]) \in 2..9
    /\ \A i \in lo..(hi - 1) : \A j \in 2..9 :
          Cardinality({c \in 1..Len(list) : Decade(list[c]) = i /\ Multiple(list[c]) = j}) = 1
    /\ \A c \in 1..(Len(list) - 1) :
          \/ Decade(list[c]) < Decade(list[c + 1])
          \/ Decade(list[c]) = Decade(list[c + 1]) /\ Multiple(list[c]) < Multiple(list[c + 1])

\* no minor tick is a major tick: the majors are rationals, and a minor tick
\* inside the decade i differs from every integer and, lying off the integers
\* by log10(j), from the major ticks of the axis
NoMinorOnMajor(minor, major) ==
    \A c \in 1..Len(minor) : \A t \in 1..Len(major) :
        /\ minor[c] # major[t]
        /\ IsQ(major[t]) /\ major[t].d = 1
        /\ StrictlyInsideDecade(minor[c])

\* C12: each minor-tick list is emptied before it is filled and handed to its
\* axis before the next list is built, so the axis gets exactly the 8 values
\* i + log10(j), j = 2..9, of each decade of its own range (axs[0] x: -1..5, 56
\* values; axs[1] x: 0..5, 48 values; axs[1] y: -10..2, 104 values) and nothing
\* left over from another axis; every minor tick lies strictly between i and
\* i + 1 and none coincides with a major tick of its axis.
C12_MinorTicks ==
    /\ pc \in {177, 220, 232} => minor_ticks = <<>>
    /\ pc = 182 => MinorTicksOf(minor_ticks, -1, 6)
    /\ pc = 225 => MinorTicksOf(minor_ticks, 0, 6)
    /\ pc \in {236, 237} => MinorTicksOf(minor_ticks, -10, 3)
    /\ \A a \in DOMAIN axs :
          /\ axs[a].xminor # <<>> =>
                /\ MinorTicksOf(axs[a].xminor, IF a = 0 THEN -1 ELSE 0, 6)
                /\ Len(axs[a].xminor) = (IF a = 0 THEN 56 ELSE 48)
                /\ NoMinorOnMajor(axs[a].xminor, axs[a].xticks)
          /\ axs[a].yminor # <<>> =>
                /\ a = 1
                /\ MinorTicksOf(axs[a].yminor, -10, 3)
                /\ Len(axs[a].yminor) = 104
                /\ NoMinorOnMajor(axs[a].yminor, axs[a].yticks)
          /\ \A c \in 1..Len(axs[a].xminor) : StrictlyInsideDecade(axs[a].xminor[c])
          /\ \A c \in 1..Len(axs[a].yminor) : StrictlyInsideDecade(axs[a].yminor[c])
    /\ (pc >= 186 \/ pc = 0) => axs[0].xminor # <<>>
    /\ (pc >= 186 /\ pc <= 219) => axs[0].xminor = minor_ticks
    /\ (pc >= 229 \/ pc = 0) => axs[1].xminor # <<>>
    /\ (pc >= 229 /\ pc <= 231) => axs[1].xminor = minor_ticks
    /\ (pc >= 238 \/ pc = 0) => axs[1].yminor = minor_ticks /\ axs[1].yminor # <<>>

\* C12 witness: the three lists have been handed over, the second x list no
\* longer holding the decade -1 of the first and the y list starting at
\* -10 + log10(2)
C12_Witness ==
    /\ pc = 0
    /\ Len(axs[0].xminor) = 56 /\ Decade(axs[0].xminor[1]) = -1
    /\ Len(axs[1].xminor) = 48 /\ Decade(axs[1].xminor[1]) = 0
    /\ Len(axs[1].yminor) = 104
    /\ Decade(axs[1].yminor[1]) = -10 /\ Multiple(axs[1].yminor[1]) = 2
    /\ Decade(axs[1].yminor[104]) = 2 /\ Multiple(axs[1].yminor[104]) = 9

\* alpha > 0, n > 1, theta_r < theta_s, K_s > 0 and l >= 0
MonotoneParameters(a) ==
    /\ ValidShape(a)
    /\ QLt(a[1], a[2])
    /\ QLt(Num(0), a[5])
    /\ QLe(Num(0), a[6])

\* C13: for alpha > 0, n > 1, theta_r < theta_s, K_s > 0, l >= 0 and any two
\* potentials psi_a < psi_b <= 0 of the array, theta(psi_a) <= theta(psi_b) and
\* K(psi_a) <= K(psi_b): along an array of decreasing psi neither ever increases.
C13_MonotoneInSuction ==
    (Returned /\ MonotoneParameters(call.params)) =>
        /\ ret.raised = ""
        /\ \A i, j \in 1..Len(call.psi) :
             (QLt(call.psi[i], call.psi[j]) /\ QLe(call.psi[j], Num(0))) =>
                /\ (IsQ(ret.theta[i]) /\ IsQ(ret.theta[j])) => QLe(ret.theta[i], ret.theta[j])
                /\ (IsQ(ret.K[i]) /\ IsQ(ret.K[j])) => QLe(ret.K[i], ret.K[j])

\* C13 witness: an array whose psi decreases with the index, both at suctions
\* above zero, and both returned curves strictly lower at the second point
C13_Witness ==
    /\ Returned /\ MonotoneParameters(call.params)
    /\ Len(call.psi) >= 2
    /\ QLt(call.psi[2], call.psi[1]) /\ QLt(call.psi[1], Num(0))
    /\ IsQ(ret.theta[1]) /\ IsQ(ret.theta[2]) /\ QLt(ret.theta[2], ret.theta[1])
    /\ IsQ(ret.K[1]) /\ IsQ(ret.K[2]) /\ QLt(ret.K[2], ret.K[1])

\* the saturated limit at psi = 0: S_e = 1, theta = theta_s and K = K_s
SaturatedAtZero ==
    LET a == call.params
        S == CallS_e
    IN  \A i \in 1..Len(call.psi) :
          call.psi[i] = Num(0) =>
             /\ S[i] = Num(1)
             /\ ret.theta[i] = a[2]
             /\ ret.K[i] = a[5]

\* C14 as stated: for psi = 0 and alpha > 0, n > 1 the call returns exactly
\* theta = theta_s and K = K_s (S_e = 1), and for every psi <= 0 the returned
\* conductivity is at most K_s.
C14_NeverAboveK_s ==
    (Returned /\ ValidShape(call.params)) =>
        /\ ret.raised = ""
        /\ SaturatedAtZero
        /\ \A i \in 1..Len(call.psi) :
             (QLe(call.psi[i], Num(0)) /\ IsQ(ret.K[i])) => QLe(ret.K[i], call.params[5])

\* C14 amended: for psi = 0 and alpha > 0, n > 1 the call returns exactly
\* theta = theta_s and K = K_s (S_e = 1), whatever the other parameters; if
\* moreover K_s >= 0 and l >= 0, then for every psi <= 0 the returned
\* conductivity is at most K_s.
C14_SaturatedLimit ==
    (Returned /\ ValidShape(call.params)) =>
        /\ ret.raised = ""
        /\ SaturatedAtZero
        /\ (QLe(Num(0), call.params[5]) /\ QLe(Num(0), call.params[6])) =>
             \A i \in 1..Len(call.psi) :
                (QLe(call.psi[i], Num(0)) /\ IsQ(ret.K[i])) => QLe(ret.K[i], call.params[5])

\* C14 witness: a call on psi = 0 and on a suction with K_s > 0 and l >= 0: the
\* first element is (theta_s, K_s) with theta_s # theta_r, the second
\* conductivity is a rational strictly below K_s
C14_Witness ==
    /\ Returned /\ ValidShape(call.params)
    /\ QLt(Num(0), call.params[5]) /\ QLe(Num(0), call.params[6])
    /\ call.params[1] # call.params[2]
    /\ Len(call.psi) = 2
    /\ call.psi[1] = Num(0) /\ QLt(call.psi[2], Num(0))
    /\ ret.theta[1] = call.params[2] /\ ret.K[1] = call.params[5]
    /\ IsQ(ret.K[2]) /\ QLt(ret.K[2], call.params[5])

(***************************************************************************)
(* The sign of a value and its position relative to 1, decided from the    *)
(* term without evaluating it, by the rules of real arithmetic:            *)
(* "neg" (v < 0), "zero", "low" (0 < v < 1), "one", "high" (v > 1),        *)
(* "pos" (v > 0), or "undecided" (not a real number, or not decided by     *)
(* these rules).                                                           *)
(***************************************************************************)
PositiveClasses == {"low", "one", "high", "pos"}

QClass(q) ==
    IF q.n < 0 THEN "neg"
    ELSE IF q.n = 0 THEN "zero"
    ELSE IF q.n < q.d THEN "low"
    ELSE IF q.n = q.d THEN "one"
    ELSE "high"

NegClass(a) ==
    IF a \in PositiveClasses THEN "neg"
    ELSE IF a = "neg" THEN "pos"
    ELSE a

MulClass(a, b) ==
    IF a = "undecided" \/ b = "undecided" THEN "undecided"
    ELSE IF a = "zero" \/ b = "zero" THEN "zero"
    ELSE IF a = "neg" /\ b = "neg" THEN "pos"
    ELSE IF a = "neg" \/ b = "neg" THEN "neg"
    ELSE IF a = "one" THEN b
    ELSE IF b = "one" THEN a
    ELSE IF a = b /\ a \in {"low", "high"} THEN a
    ELSE "pos"

AddClass(a, b) ==
    IF a = "undecided" \/ b = "undecided" THEN "undecided"
    ELSE IF a = "zero" THEN b
    ELSE IF b = "zero" THEN a
    ELSE IF a = "neg" /\ b = "neg" THEN "neg"
    ELSE IF a = "neg" \/ b = "neg" THEN "undecided"
    ELSE IF a \in {"one", "high"} \/ b \in {"one", "high"} THEN "high"
    ELSE "pos"

\* 1 - b is decided; other differences are not
SubClass(a, b) ==
    IF a = "zero" THEN NegClass(b)
    ELSE IF b = "zero" THEN a
    ELSE IF a = "one" /\ b = "low" THEN "low"
    ELSE IF a = "one" /\ b = "one" THEN "zero"
    ELSE IF a = "one" /\ b = "high" THEN "neg"
    ELSE IF a \in PositiveClasses /\ b = "neg" THEN AddClass(a, "pos")
    ELSE "undecided"

\* a ** e for a rational exponent e
PowClass(a, e) ==
    IF a = "undecided" THEN "undecided"
    ELSE IF e.n = 0 THEN "one"
    ELSE IF a = "zero" THEN (IF e.n > 0 THEN "zero" ELSE "undecided")
    ELSE IF a = "neg" THEN (IF e.d # 1 THEN "undecided" ELSE IF e.n % 2 = 0 THEN "pos" ELSE "neg")
    ELSE IF a = "low" THEN (IF e.n > 0 THEN "low" ELSE "high")
    ELSE IF a = "high" THEN (IF e.n > 0 THEN "high" ELSE "low")
    ELSE a

RECURSIVE SignClass(_)
SignClass(v) ==
    IF IsQ(v) THEN QClass(v)
    ELSE IF v.k # "sym" \/ Len(v.t) = 0 THEN "undecided"
    ELSE IF v.t[1] = "neg" /\ Len(v.t) = 2 THEN NegClass(SignClass(v.t[2]))
    ELSE IF Len(v.t) # 3 THEN "undecided"
    ELSE IF v.t[1] = "mul" THEN MulClass(SignClass(v.t[2]), SignClass(v.t[3]))
    ELSE IF v.t[1] = "add" THEN AddClass(SignClass(v.t[2]), SignClass(v.t[3]))
    ELSE IF v.t[1] = "sub" THEN SubClass(SignClass(v.t[2]), SignClass(v.t[3]))
    ELSE IF v.t[1] = "pow" /\ IsQ(v.t[3]) THEN PowClass(SignClass(v.t[2]), v.t[3])
    ELSE "undecided"

\* v > 0
IsPositive(v) == SignClass(v) \in PositiveClasses

\* v is a log10 that is defined and finite: an evaluated rational, or log10
\* of a positive argument
IsFiniteLog10(v) ==
    \/ IsQ(v)
    \/ v.k = "sym" /\ Len(v.t) = 2 /\ v.t[1] = "log10" /\ IsPositive(v.t[2])

\* the soil's list is the literal one of the notebook
IsLiteral(s) == table[s] = LiteralParameters[s]

\* C15: for each of the three literal soils and each of the 60 grid points the
\* conductivity stored by the loop is strictly positive, and every log10(K)
\* taken in the plotting cell has a positive argument, so it is defined and
\* finite.
C15_ConductivityPositive ==
    \A s \in SoilNames :
        (IsLiteral(s) /\ ("K_VGM_" \o s) \in DOMAIN ns) =>
            LET K == ns["K_VGM_" \o s]
            IN  /\ Len(K) = 60
                /\ \A i \in 1..Len(K) : IsPositive(K[i])
                /\ ("log_K_" \o s) \in DOMAIN ns =>
                      LET log_K == ns["log_K_" \o s]
                      IN  /\ Len(log_K) = 60
                          /\ \A i \in 1..Len(log_K) :
                                /\ IsFiniteLog10(log_K[i])
                                /\ ~IsQ(log_K[i]) => log_K[i].t[2] = K[i]

\* C15 witness: the run on the literal table has taken the three logarithms;
\* the conductivities at the first and the last grid point are unevaluated
\* terms decided positive
C15_Witness ==
    /\ pc = 0
    /\ \A s \in SoilNames :
          /\ IsLiteral(s)
          /\ Len(ns["log_K_" \o s]) = 60
          /\ ~IsQ(ns["K_VGM_" \o s][1]) /\ IsPositive(ns["K_VGM_" \o s][1])
          /\ ~IsQ(ns["K_VGM_" \o s][60]) /\ IsPositive(ns["K_VGM_" \o s][60])
          /\ ns["log_K_" \o s][60] = Sym(<<"log10", ns["K_VGM_" \o s][60]>>)
=============================================================================
